---- MODULE Spec2Model ----
(***************************************************************************)
(* The CloudStackCluster reconciler (controllers/cloudstackcluster_        *)
(* controller.go): the Normal pipeline, the deletion protocol, the name    *)
(* normalization of failure domains and the event filters, over an         *)
(* abstract Resource Store holding one Subject and its dependents.         *)
(***************************************************************************)
EXTENDS Integers, Sequences, FiniteSets, TLC

(***************************************************************************)
(* Bounds.                                                                 *)
(***************************************************************************)
\* Most FailureDomainSpecs one Subject declares.
MaxFDs == 3
\* Longest name (in characters) fed to the name normalization.
MaxNameLen == 3
\* Longest owner name (in characters) fed to the name normalization.
MaxOwnerLen == 1
\* Most FailureDomainSpecs of a Subject version handed to the event filter.
MaxFilterFDs == 1

(***************************************************************************)
(* Strings are sequences of characters, so that suffix tests and           *)
(* concatenation are computed, not assumed.                                *)
(***************************************************************************)
Chars == {"p", "d", "-"}

Strings(n) == UNION {[1..k -> Chars] : k \in 0..n}

\* strings.HasSuffix(s, suffix)
HasSuffix(s, suffix) ==
    /\ Len(suffix) <= Len(s)
    /\ SubSeq(s, Len(s) - Len(suffix) + 1, Len(s)) = suffix

\* The mutant: the suffix is appended without looking at the name.
NormalizeAlwaysAppend(name, owner) == name \o <<"-">> \o owner

\* Lines 123-125: add the cluster name suffix if missing.
Normalize(name, owner) ==
    IF ~HasSuffix(name, <<"-">> \o owner)
    THEN name \o <<"-">> \o owner
    ELSE name

(***************************************************************************)
(* The Subject of the state machine: owner "d" (as "demo"), declaring up   *)
(* to MaxFDs names out of "p", "pd" and "p-d" (as "pool1", "pool2" and     *)
(* "pool1-demo").                                                          *)
(***************************************************************************)
CAPIClusterName == <<"d">>

DeclNames == {<<"p">>, <<"p", "d">>, <<"p", "-", "d">>}

\* The lists of FailureDomainSpecs a Subject declares, by their names: no name
\* twice (two names may still collide once normalized, as "p" and "p-d" do).
SpecLists ==
    {l \in UNION {[1..k -> DeclNames] : k \in 0..MaxFDs} :
        \A i, j \in 1..Len(l) : l[i] = l[j] => i = j}

\* The names a dependent of the Subject can carry.
FDNames == {Normalize(n, CAPIClusterName) : n \in DeclNames}

Namespace == "default"

ClusterFinalizer == "cloudstackcluster.infrastructure.cluster.x-k8s.io"

Absent == [Present |-> FALSE]

NewFD == [Present |-> TRUE, Ready |-> FALSE, Terminating |-> FALSE]

(***************************************************************************)
(* A fixed order on names: the order in which List returns the items.      *)
(***************************************************************************)
RECURSIVE SetToSeq(_)
SetToSeq(S) ==
    IF S = {} THEN <<>>
    ELSE LET x == CHOOSE y \in S : \A z \in S : Len(y) <= Len(z)
         IN  <<x>> \o SetToSeq(S \ {x})

(***************************************************************************)
(* State.                                                                  *)
(*   subject  the CloudStackCluster as the Resource Store holds (or held)  *)
(*            it                                                           *)
(*   stored   whether the store still holds the Subject                    *)
(*   fds      the CloudStackFailureDomains the store holds, by name        *)
(*   pc       the position of the one invocation in flight ("idle": none)  *)
(*   r        the reconciliation runner of that invocation                 *)
(*   ev       the last change notification on the Subject, with the        *)
(*            event filter's answer to it                                  *)
(*   h        history of the invocation, read by the properties only       *)
(*   nrm      input and output of the name normalization on its own        *)
(*   flt      an update notification handed to the event filter on its own *)
(*   own      a notification on the owner Cluster handed to its watch      *)
(***************************************************************************)
VARIABLES subject, stored, fds, pc, r, ev, h, nrm, flt, own

vars == <<subject, stored, fds, pc, r, ev, h, nrm, flt, own>>

(***************************************************************************)
(* Step results: ctrl.Result and error of a reconciliation stage.          *)
(***************************************************************************)
NoMsg == <<>>

\* ctrl.Result{}, nil
Continue == [requeue |-> FALSE, err |-> "nil", msg |-> NoMsg]

\* RequeueWithMessage: a requeue result with a nil error, carrying the reason.
RequeueWithMessage(msg) == [requeue |-> TRUE, err |-> "nil", msg |-> msg]

\* ctrl.Result{}, err
Failed(err) == [requeue |-> FALSE, err |-> err, msg |-> NoMsg]

\* No result yet.
NoResult == [requeue |-> FALSE, err |-> "unset", msg |-> NoMsg]

\* ShouldReturn: a stage result that ends the pipeline.
ShouldReturn(res) == res.requeue \/ res.err # "nil"

(***************************************************************************)
(* The runner of one invocation.                                           *)
(***************************************************************************)
\* infrav1.CloudStackClusterStatus{}
ZeroStatus == [Ready |-> FALSE, FailureDomains |-> <<>>]

\* &infrav1.CloudStackCluster{}
ZeroSubject ==
    [ ResourceVersion   |-> "",
      Generation        |-> 0,
      Labels            |-> {},
      DeletionTimestamp |-> FALSE,
      Finalizers        |-> <<>>,
      ManagedFields     |-> <<>>,
      Spec              |-> [FailureDomains |-> <<>>],
      Status            |-> ZeroStatus ]

\* Lines 65-76: an empty Subject and an empty list of failure domains.
NewCSClusterReconciliationRunner ==
    [ ReconciliationSubject |-> ZeroSubject,
      FailureDomains        |-> <<>>,
      CAPICluster           |-> [Name |-> CAPIClusterName],
      Patcher               |-> ZeroSubject,
      idx                   |-> 1,
      res                   |-> Continue ]

\* The base stages: the Subject is fetched into the runner, and the patcher
\* keeps it as fetched.
ForRequest(rr, subj) ==
    [rr EXCEPT !.ReconciliationSubject = subj, !.Patcher = subj]

\* The in-memory Subject's failure-domain status with key k set (line 126).
MapPut(m, k, v) == [x \in (DOMAIN m) \cup {k} |-> IF x = k THEN v ELSE m[x]]

RECURSIVE StatusMapLoop(_, _, _)
StatusMapLoop(m, fdSpecs, owner) ==
    IF fdSpecs = <<>> THEN m
    ELSE StatusMapLoop(
             MapPut(m, Normalize(Head(fdSpecs), owner), [ControlPlane |-> TRUE]),
             Tail(fdSpecs), owner)

\* The mutant: the status map is merged into the prior one, not replaced.
SetFailureDomainsStatusMapMerge(rr) ==
    [rr EXCEPT !.ReconciliationSubject.Status.FailureDomains =
                   StatusMapLoop(@, rr.ReconciliationSubject.Spec.FailureDomains,
                                 rr.CAPICluster.Name),
               !.res = Continue]

\* The mutant: the whole status is reset, not the map alone.
SetFailureDomainsStatusMapResetsStatus(rr) ==
    [rr EXCEPT !.ReconciliationSubject.Status =
                   [ZeroStatus EXCEPT !.FailureDomains =
                       StatusMapLoop(<<>>, rr.ReconciliationSubject.Spec.FailureDomains,
                                     rr.CAPICluster.Name)],
               !.res = Continue]

\* Lines 120-129.
SetFailureDomainsStatusMap(rr) ==
    [rr EXCEPT !.ReconciliationSubject.Status.FailureDomains =
                   StatusMapLoop(<<>>, rr.ReconciliationSubject.Spec.FailureDomains,
                                 rr.CAPICluster.Name),
               !.res = Continue]

\* The reason of a count mismatch (line 109), as the text's parts.
CountMismatchMsg(expected, actual) ==
    <<"Expected ", expected, " FailureDomains, but found ", actual>>

\* The reason of a not-ready failure domain (line 113).
NotReadyMsg(namespace, name) ==
    <<"FailureDomains ", namespace, "/", name, " not ready, requeueing.">>

\* The first not-ready item of the fetched list, 0 when every one is ready.
FirstNotReady(items) ==
    IF \E i \in 1..Len(items) : ~items[i].Ready
    THEN CHOOSE i \in 1..Len(items) :
             /\ ~items[i].Ready
             /\ \A j \in 1..(i - 1) : items[j].Ready
    ELSE 0

\* The mutant: readiness is looked at before the counts.
VerifyReadinessFirst(rr) ==
    LET expected == Len(rr.ReconciliationSubject.Spec.FailureDomains)
        actual   == Len(rr.FailureDomains)
        k        == FirstNotReady(rr.FailureDomains)
    IN  IF k # 0
        THEN [rr EXCEPT !.res = RequeueWithMessage(NotReadyMsg(rr.FailureDomains[k].Namespace,
                                                         rr.FailureDomains[k].Name))]
        ELSE IF expected # actual
        THEN [rr EXCEPT !.res = RequeueWithMessage(CountMismatchMsg(expected, actual))]
        ELSE [rr EXCEPT !.res = Continue]

\* The mutant: the readiness of the items is not looked at.
VerifyCountOnly(rr) ==
    LET expected == Len(rr.ReconciliationSubject.Spec.FailureDomains)
        actual   == Len(rr.FailureDomains)
    IN  IF expected # actual
        THEN [rr EXCEPT !.res = RequeueWithMessage(CountMismatchMsg(expected, actual))]
        ELSE [rr EXCEPT !.res = Continue]

\* The mutant: the counts are not compared.
VerifyReadinessOnly(rr) ==
    LET k == FirstNotReady(rr.FailureDomains)
    IN  IF k # 0
        THEN [rr EXCEPT !.res = RequeueWithMessage(NotReadyMsg(rr.FailureDomains[k].Namespace,
                                                         rr.FailureDomains[k].Name))]
        ELSE [rr EXCEPT !.res = Continue]

\* Lines 105-117.
VerifyFailureDomainCRDs(rr) ==
    LET expected == Len(rr.ReconciliationSubject.Spec.FailureDomains)
        actual   == Len(rr.FailureDomains)
        k        == FirstNotReady(rr.FailureDomains)
    IN  IF expected # actual
        THEN [rr EXCEPT !.res = RequeueWithMessage(CountMismatchMsg(expected, actual))]
        ELSE IF k # 0
        THEN [rr EXCEPT !.res = RequeueWithMessage(NotReadyMsg(rr.FailureDomains[k].Namespace,
                                                         rr.FailureDomains[k].Name))]
        ELSE [rr EXCEPT !.res = Continue]

\* controllerutil.ContainsFinalizer
ContainsFinalizer(o, finalizer) ==
    \E i \in 1..Len(o.Finalizers) : o.Finalizers[i] = finalizer

\* The mutant: the finalizer is appended without looking for it.
AddFinalizerAgain(o, finalizer) ==
    [o EXCEPT !.Finalizers = Append(@, finalizer)]

\* controllerutil.AddFinalizer (line 99): appended unless already there.
AddFinalizer(o, finalizer) ==
    IF ContainsFinalizer(o, finalizer) THEN o
    ELSE [o EXCEPT !.Finalizers = Append(@, finalizer)]

\* controllerutil.RemoveFinalizer (line 145): every occurrence is dropped.
RemoveFinalizer(o, finalizer) ==
    [o EXCEPT !.Finalizers = SelectSeq(@, LAMBDA f : f # finalizer)]

\* The mutant: the flag is left as it was.
SetReadyFinalizerOnly(rr) ==
    [rr EXCEPT !.ReconciliationSubject =
                   AddFinalizer(rr.ReconciliationSubject, ClusterFinalizer),
               !.res = Continue]

\* The mutant: a finalizer that is there already is taken off.
SetReadyTogglesFinalizer(rr) ==
    [rr EXCEPT !.ReconciliationSubject =
                   [(IF ContainsFinalizer(rr.ReconciliationSubject, ClusterFinalizer)
                     THEN RemoveFinalizer(rr.ReconciliationSubject, ClusterFinalizer)
                     ELSE AddFinalizer(rr.ReconciliationSubject, ClusterFinalizer))
                        EXCEPT !.Status.Ready = TRUE],
               !.res = Continue]

\* Lines 98-102.
SetReady(rr) ==
    [rr EXCEPT !.ReconciliationSubject =
                   [AddFinalizer(rr.ReconciliationSubject, ClusterFinalizer)
                        EXCEPT !.Status.Ready = TRUE],
               !.res = Continue]

(***************************************************************************)
(* The event filters of SetupWithManager.                                  *)
(***************************************************************************)
\* The mutant: all but the spec is blanked.
MaskedAllButSpec(o) == [ZeroSubject EXCEPT !.Spec = o.Spec]

\* The mutant: the deletion timestamp is blanked too.
MaskedDeletionTimestampToo(o) ==
    [o EXCEPT !.ResourceVersion = "",
              !.Finalizers = <<>>,
              !.ManagedFields = <<>>,
              !.Status = ZeroStatus,
              !.DeletionTimestamp = FALSE]

\* Lines 158-169: the fields the filter blanks on its copies.
Masked(o) ==
    [o EXCEPT !.ResourceVersion = "",
              !.Finalizers = <<>>,
              !.ManagedFields = <<>>,
              !.Status = ZeroStatus]

\* The mutant: the status is left in the comparison.
UpdateFuncStatusKept(old, new) ==
    [Masked(old) EXCEPT !.Status = old.Status] # [Masked(new) EXCEPT !.Status = new.Status]

\* Lines 155-172: !reflect.DeepEqual(oldCluster, newCluster) on the blanked copies.
UpdateFunc(old, new) == Masked(old) # Masked(new)

\* predicate.Funcs leaves CreateFunc and DeleteFunc unset: such events pass.
CreateFunc == TRUE

DeleteFunc == TRUE

\* The mutant: the watch fires whenever the new version is not paused.
ClusterUpdateFuncNotPaused(old, new) == ~new.Spec.Paused

\* Lines 185-189: the watch on the owner Cluster fires on unpause only.
ClusterUpdateFunc(old, new) == old.Spec.Paused /\ ~new.Spec.Paused

\* Line 190.
ClusterDeleteFunc == FALSE

\* Line 191.
ClusterCreateFunc == FALSE

NoEvent == [kind |-> "none"]

UpdateEvent(by, old, new) ==
    [kind |-> "Update", by |-> by, old |-> old, new |-> new,
     pass |-> UpdateFunc(old, new)]

DeleteEvent(by, old) ==
    [kind |-> "Delete", by |-> by, old |-> old, pass |-> DeleteFunc]

CreateEvent(by, new) ==
    [kind |-> "Create", by |-> by, new |-> new, pass |-> CreateFunc]

(***************************************************************************)
(* The Resource Store.                                                     *)
(***************************************************************************)
\* Resource versions are opaque and differ from one write to the next.
NextVersion(v) == IF v = "v1" THEN "v2" ELSE "v1"

\* List: the Subject's failure domains the store holds, in the store's order.
ListFDs(store) ==
    LET names == SetToSeq({n \in FDNames : store[n].Present})
    IN  [i \in 1..Len(names) |->
            [Namespace |-> Namespace, Name |-> names[i],
             Ready |-> store[names[i]].Ready]]

\* Whether every failure domain the Subject declares is there and ready.
AllDeclaredReady(store, fdSpecs) ==
    \A i \in 1..Len(fdSpecs) :
        LET n == Normalize(fdSpecs[i], CAPIClusterName)
        IN  store[n].Present /\ store[n].Ready

(***************************************************************************)
(* History of the invocation in flight (of the last one, when idle).       *)
(***************************************************************************)
NoHistory ==
    [ mode      |-> "none",   \* Normal | Deleting
      fetched   |-> FALSE,    \* its own fetch of the dependents returned
      fault     |-> FALSE,    \* one of its store calls failed
      ext       |-> FALSE,    \* the store changed under it
      startOK   |-> FALSE,    \* every declared dependent was ready when it began
      verify    |-> NoResult, \* what VerifyFailureDomainCRDs returned
      setReady  |-> FALSE,    \* SetReady ran
      creates   |-> <<>>,     \* the names it created
      deletes   |-> <<>> ]    \* the names it asked the store to delete

\* What is left behind by a complete, undisturbed, fault-free Normal run; or,
\* by an invocation that was cut off with some of its creates or deletes
\* issued, its mode (until the store changes or an invocation completes).
NoSnapshot == [valid |-> FALSE, cut |-> "none"]

Snapshot(subj, store) ==
    [valid |-> TRUE, cut |-> "none", fds |-> store, Status |-> subj.Status,
     Finalizers |-> subj.Finalizers]

CutSnapshot(mode) == [valid |-> FALSE, cut |-> mode]

\* The mode of the invocation in flight if it has issued a create or a delete,
\* of the cut-off invocation before it otherwise.
CutMode(hh) ==
    IF hh.cur.creates # <<>> \/ hh.cur.deletes # <<>>
    THEN hh.cur.mode
    ELSE hh.prev.cut

(***************************************************************************)
(* The pipeline executor.                                                  *)
(***************************************************************************)
\* Lines 89-94: the stages of the Normal pipeline, in order.
Stages ==
    << "SetFailureDomainsStatusMap", "CreateFailureDomains", "GetFailureDomains",
       "VerifyFailureDomainCRDs", "SetReady" >>

\* RunReconciliationStages: a stage that asks to return ends the pipeline, any
\* other hands over to the next stage; the changes are then patched back.
NextStage(stage, res) ==
    LET i == CHOOSE k \in 1..Len(Stages) : Stages[k] = stage
    IN  IF ShouldReturn(res) \/ i = Len(Stages) THEN "Patch" ELSE Stages[i + 1]

\* RunReconciliationStages from `stage` on, up to the next store call or the
\* patch: the runner, where it stands, and the invocation's history.
RECURSIVE RunReconciliationStages(_, _, _)
RunReconciliationStages(stage, rr, hc) ==
    IF stage = "Patch" THEN [pc |-> stage, r |-> rr, cur |-> hc]
    ELSE IF stage = "CreateFailureDomains"
    THEN IF rr.idx <= Len(rr.ReconciliationSubject.Spec.FailureDomains)
         THEN [pc |-> stage, r |-> rr, cur |-> hc]
         ELSE LET out == [rr EXCEPT !.idx = 1, !.res = Continue]
              IN  RunReconciliationStages(NextStage(stage, out.res), out, hc)
    ELSE IF stage = "GetFailureDomains" THEN [pc |-> stage, r |-> rr, cur |-> hc]
    ELSE IF stage = "SetFailureDomainsStatusMap"
    THEN LET out == SetFailureDomainsStatusMap(rr)
         IN  RunReconciliationStages(NextStage(stage, out.res), out, hc)
    ELSE IF stage = "VerifyFailureDomainCRDs"
    THEN LET out == VerifyFailureDomainCRDs(rr)
         IN  RunReconciliationStages(NextStage(stage, out.res), out,
                                     [hc EXCEPT !.verify = out.res])
    ELSE LET out == SetReady(rr)
         IN  RunReconciliationStages(NextStage(stage, out.res), out,
                                     [hc EXCEPT !.setReady = TRUE])

\* The mutant: the failure domains that are left do not keep the finalizer.
ReconcileDeleteChildrenForgotten(rr) ==
    [rr EXCEPT !.ReconciliationSubject =
                   RemoveFinalizer(rr.ReconciliationSubject, ClusterFinalizer),
               !.res = Continue]

\* The mutant: with the deletes issued the invocation reports success.
ReconcileDeleteChildrenDone(rr) == [rr EXCEPT !.res = Continue]

\* The mutant: the finalizer is taken off along with the requeue.
ReconcileDeleteChildrenReleased(rr) ==
    [rr EXCEPT !.ReconciliationSubject =
                   RemoveFinalizer(rr.ReconciliationSubject, ClusterFinalizer),
               !.res =
        RequeueWithMessage(<<"Child FailureDomains still present, requeueing.">>)]

\* Line 143: failure domains were found and their deletion asked for.
ReconcileDeleteChildrenLeft(rr) ==
    [rr EXCEPT !.res =
        RequeueWithMessage(<<"Child FailureDomains still present, requeueing.">>)]

\* The mutant: the finalizer is never taken off.
ReconcileDeleteKeepFinalizer(rr) == [rr EXCEPT !.res = Continue]

\* Lines 145-146: no failure domain was found.
ReconcileDeleteNoChildren(rr) ==
    [rr EXCEPT !.ReconciliationSubject =
                   RemoveFinalizer(rr.ReconciliationSubject, ClusterFinalizer),
               !.res = Continue]

\* RunBaseReconciliationStages: fetch the Subject (NotFound ends the invocation
\* with success) and choose the mode by the deletion marker: ReconcileDelete, or
\* Reconcile (lines 88-95), which runs up to its first store call.
Begin ==
    /\ pc = "idle"
    /\ IF ~stored
       THEN /\ h' = [cur |-> NoHistory, prev |-> NoSnapshot]
            /\ UNCHANGED <<pc, r>>
       ELSE LET rr  == ForRequest(NewCSClusterReconciliationRunner, subject)
                hc  == [NoHistory EXCEPT
                          !.mode = IF subject.DeletionTimestamp
                                   THEN "Deleting" ELSE "Normal",
                          !.startOK = AllDeclaredReady(fds, subject.Spec.FailureDomains)]
                out == RunReconciliationStages(Stages[1], rr, hc)
            IN  IF subject.DeletionTimestamp
                THEN /\ r' = rr
                     /\ pc' = "ReconcileDelete"
                     /\ h' = [cur |-> hc, prev |-> CutSnapshot(h.prev.cut)]
                ELSE /\ r' = out.r
                     /\ pc' = out.pc
                     /\ h' = [cur |-> out.cur, prev |-> h.prev]
    /\ UNCHANGED <<subject, stored, fds, ev, nrm, flt, own>>

\* The invocation moves on from a store stage: the runner as the store call left
\* it runs the stages up to the next store call or the patch.
MoveOn(stage, rr, hc) ==
    \E rv \in {rr} : \E hv \in {hc} :
        \E out \in {RunReconciliationStages(stage, rv, hv)} :
            /\ r' = out.r
            /\ pc' = out.pc
            /\ h' = [h EXCEPT !.cur = out.cur]

\* CreateFailureDomains(specs): one Create per declared spec, under its
\* normalized name; AlreadyExists is no error, any other failure ends the stage.
CreateFailureDomainsStage ==
    /\ pc = "CreateFailureDomains"
    /\ \E name \in {Normalize(r.ReconciliationSubject.Spec.FailureDomains[r.idx],
                              r.CAPICluster.Name)} :
           \/ /\ ~fds[name].Present
              /\ fds' = [fds EXCEPT ![name] = NewFD]
              /\ MoveOn(pc, [r EXCEPT !.idx = @ + 1],
                        [h.cur EXCEPT !.creates = Append(@, name)])
           \/ /\ fds[name].Present
              /\ MoveOn(pc, [r EXCEPT !.idx = @ + 1], h.cur)
              /\ UNCHANGED fds
           \/ /\ MoveOn("Patch", [r EXCEPT !.res = Failed("StoreUnavailable")],
                        [h.cur EXCEPT !.fault = TRUE])
              /\ UNCHANGED fds
    /\ UNCHANGED <<subject, stored, ev, nrm, flt, own>>

\* GetFailureDomains(r.FailureDomains): list the Subject's failure domains; the
\* stages after it (VerifyFailureDomainCRDs, SetReady) call no store.
GetFailureDomainsStage ==
    /\ pc = "GetFailureDomains"
    /\ \/ \E items \in {ListFDs(fds)} :
              MoveOn(NextStage(pc, Continue),
                     [r EXCEPT !.FailureDomains = items, !.res = Continue],
                     [h.cur EXCEPT !.fetched = TRUE])
       \/ MoveOn("Patch", [r EXCEPT !.res = Failed("StoreUnavailable")],
                 [h.cur EXCEPT !.fault = TRUE])
    /\ UNCHANGED <<subject, stored, fds, ev, nrm, flt, own>>

\* Lines 134-137 and 145-146: the fetch of ReconcileDelete returned; with
\* nothing fetched the finalizer is taken off and the invocation succeeds.
ReconcileDeleteFetched ==
    /\ pc = "ReconcileDelete"
    /\ \E got \in {[r EXCEPT !.FailureDomains = ListFDs(fds), !.res = Continue]} :
           IF Len(got.FailureDomains) > 0
           THEN /\ r' = [got EXCEPT !.idx = 1]
                /\ pc' = "DeleteFailureDomains"
           ELSE /\ r' = ReconcileDeleteNoChildren(got)
                /\ pc' = "Patch"
    /\ h' = [h EXCEPT !.cur.fetched = TRUE]
    /\ UNCHANGED <<subject, stored, fds, ev, nrm, flt, own>>

\* Lines 134-136: the fetch failed, ReconcileDelete returns its error.
ReconcileDeleteFetchFails ==
    /\ pc = "ReconcileDelete"
    /\ r' = [r EXCEPT !.res = Failed("StoreUnavailable")]
    /\ h' = [h EXCEPT !.cur.fault = TRUE]
    /\ pc' = "Patch"
    /\ UNCHANGED <<subject, stored, fds, ev, nrm, flt, own>>

ReconcileDeleteStage == ReconcileDeleteFetched \/ ReconcileDeleteFetchFails

\* Lines 138-143: the Delete of the next fetched failure domain succeeds. The
\* store removes the object at once, or marks it and removes it later. After
\* the last one ReconcileDelete returns a requeue.
DeleteFailureDomainIssued ==
    /\ pc = "DeleteFailureDomains"
    /\ LET name == r.FailureDomains[r.idx].Name
           last == r.idx = Len(r.FailureDomains)
       IN  /\ fds[name].Present
           /\ \/ fds' = [fds EXCEPT ![name] = Absent]
              \/ fds' = [fds EXCEPT ![name].Terminating = TRUE]
           /\ r' = IF last THEN ReconcileDeleteChildrenLeft(r)
                   ELSE [r EXCEPT !.idx = @ + 1]
           /\ pc' = IF last THEN "Patch" ELSE pc
           /\ h' = [h EXCEPT !.cur.deletes = Append(@, name)]
    /\ UNCHANGED <<subject, stored, ev, nrm, flt, own>>

\* Lines 139-141: the failure domain is gone, the store answers NotFound, and
\* ReconcileDelete returns that error.
DeleteFailureDomainNotFound ==
    /\ pc = "DeleteFailureDomains"
    /\ LET name == r.FailureDomains[r.idx].Name
       IN  /\ ~fds[name].Present
           /\ h' = [h EXCEPT !.cur.deletes = Append(@, name)]
    /\ r' = [r EXCEPT !.res = Failed("NotFound")]
    /\ pc' = "Patch"
    /\ UNCHANGED <<subject, stored, fds, ev, nrm, flt, own>>

\* The mutant: a failed Delete is passed over and the loop goes on.
DeleteFailureDomainFailsIgnored ==
    /\ pc = "DeleteFailureDomains"
    /\ LET last == r.idx = Len(r.FailureDomains)
       IN  /\ r' = IF last THEN ReconcileDeleteChildrenLeft(r)
                   ELSE [r EXCEPT !.idx = @ + 1]
           /\ pc' = IF last THEN "Patch" ELSE pc
    /\ h' = [h EXCEPT !.cur.fault = TRUE]
    /\ UNCHANGED <<subject, stored, fds, ev, nrm, flt, own>>

\* Lines 139-141: the store fails the Delete, ReconcileDelete returns the error.
DeleteFailureDomainFails ==
    /\ pc = "DeleteFailureDomains"
    /\ r' = [r EXCEPT !.res = Failed("StoreUnavailable")]
    /\ pc' = "Patch"
    /\ h' = [h EXCEPT !.cur.fault = TRUE]
    /\ UNCHANGED <<subject, stored, fds, ev, nrm, flt, own>>

DeleteFailureDomainsStage ==
    \/ DeleteFailureDomainIssued
    \/ DeleteFailureDomainNotFound
    \/ DeleteFailureDomainFails

\* The object a patch of the runner's copy `mine` leaves in the store: status and
\* finalizers are the runner's, the store stamps a new version and the writer.
Patched(obj, mine) ==
    [obj EXCEPT !.Status = mine.Status,
                !.Finalizers = mine.Finalizers,
                !.ManagedFields = <<"kubectl", "manager">>,
                !.ResourceVersion = NextVersion(@)]

\* The patch that ends an invocation: what the runner changed on its copy of
\* the Subject (status, finalizers) is written to the store, which notifies the
\* watchers and reclaims a Subject that is marked for deletion and has no
\* finalizer left. Nothing changed is no write; a Subject that is gone is
\* NotFound.
PatchStage ==
    /\ pc = "Patch"
    /\ pc' = "idle"
    /\ LET mine    == r.ReconciliationSubject
           changed == mine # r.Patcher
           new     == Patched(subject, mine)
       IN  /\ IF stored /\ changed
              THEN /\ subject' = new
                   /\ stored' = ~(new.DeletionTimestamp /\ new.Finalizers = <<>>)
                   /\ ev' = IF stored'
                            THEN UpdateEvent("reconciler", subject, new)
                            ELSE DeleteEvent("reconciler", new)
              ELSE UNCHANGED <<subject, stored, ev>>
           /\ h' = [cur  |-> NoHistory,
                    prev |-> IF h.cur.mode = "Normal" /\ ~h.cur.fault /\ ~h.cur.ext
                             THEN Snapshot(subject', fds)
                             ELSE NoSnapshot]
    /\ r' = NewCSClusterReconciliationRunner
    /\ UNCHANGED <<fds, nrm, flt, own>>

\* The caller cancels the invocation (context expiry, crash) or its patch is
\* refused: the store calls made so far stand, nothing of the Subject is written.
Cancel ==
    /\ pc # "idle"
    /\ pc' = "idle"
    /\ h' = [cur |-> NoHistory, prev |-> CutSnapshot(CutMode(h))]
    /\ r' = NewCSClusterReconciliationRunner
    /\ UNCHANGED <<subject, stored, fds, ev, nrm, flt, own>>

(***************************************************************************)
(* What happens around the reconciler.                                     *)
(***************************************************************************)
\* A store change that is not the invocation's own.
External(hh) ==
    [cur |-> [hh.cur EXCEPT !.ext = (pc # "idle")], prev |-> NoSnapshot]

\* Deletion of the Subject is requested: the store sets the deletion marker, or
\* removes the Subject at once when it carries no finalizer.
RequestDelete ==
    /\ stored
    /\ ~subject.DeletionTimestamp
    /\ LET new == [subject EXCEPT !.DeletionTimestamp = TRUE,
                                  !.ResourceVersion = NextVersion(@)]
       IN  /\ subject' = new
           /\ stored' = (new.Finalizers # <<>>)
           /\ ev' = IF stored'
                    THEN UpdateEvent("user", subject, new)
                    ELSE DeleteEvent("user", new)
    /\ h' = External(h)
    /\ UNCHANGED <<fds, pc, r, nrm, flt, own>>

\* A failure domain's own reconciler reports it ready.
FDBecomesReady(n) ==
    /\ fds[n].Present
    /\ ~fds[n].Ready
    /\ fds' = [fds EXCEPT ![n].Ready = TRUE]
    /\ h' = External(h)
    /\ UNCHANGED <<subject, stored, pc, r, ev, nrm, flt, own>>

\* A failure domain's own reconciler reports it not ready any more.
FDBecomesNotReady(n) ==
    /\ fds[n].Present
    /\ fds[n].Ready
    /\ fds' = [fds EXCEPT ![n].Ready = FALSE]
    /\ h' = External(h)
    /\ UNCHANGED <<subject, stored, pc, r, ev, nrm, flt, own>>

\* A failure domain leaves the store: its deletion completes.
FDVanishes(n) ==
    /\ fds[n].Present
    /\ fds[n].Terminating
    /\ fds' = [fds EXCEPT ![n] = Absent]
    /\ h' = External(h)
    /\ UNCHANGED <<subject, stored, pc, r, ev, nrm, flt, own>>

\* Somebody else asks the store to delete a failure domain.
FDDeletedByOthers(n) ==
    /\ fds[n].Present
    /\ ~fds[n].Terminating
    /\ fds' = [fds EXCEPT ![n].Terminating = TRUE]
    /\ h' = External(h)
    /\ UNCHANGED <<subject, stored, pc, r, ev, nrm, flt, own>>

(***************************************************************************)
(* The reconciler over the store.                                          *)
(***************************************************************************)
NewSubject(fdSpecs) ==
    [ ResourceVersion   |-> "v1",
      Generation        |-> 1,
      Labels            |-> {},
      DeletionTimestamp |-> FALSE,
      Finalizers        |-> <<>>,
      ManagedFields     |-> <<"kubectl">>,
      Spec              |-> [FailureDomains |-> fdSpecs],
      Status            |-> ZeroStatus ]

NrmIdle == [step |-> "off"]

FltIdle == [step |-> "off"]

OwnIdle == [step |-> "off"]

Init ==
    /\ \E fdSpecs \in SpecLists : subject = NewSubject(fdSpecs)
    /\ stored = TRUE
    /\ fds = [n \in FDNames |-> Absent]
    /\ pc = "idle"
    /\ r = NewCSClusterReconciliationRunner
    /\ ev = CreateEvent("user", subject)
    /\ h = [cur |-> NoHistory, prev |-> NoSnapshot]
    /\ nrm = NrmIdle
    /\ flt = FltIdle
    /\ own = OwnIdle

Next ==
    \/ Begin
    \/ CreateFailureDomainsStage
    \/ GetFailureDomainsStage
    \/ ReconcileDeleteStage
    \/ DeleteFailureDomainsStage
    \/ PatchStage
    \/ Cancel
    \/ RequestDelete
    \/ \E n \in FDNames : FDBecomesReady(n)
    \/ \E n \in FDNames : FDBecomesNotReady(n)
    \/ \E n \in FDNames : FDVanishes(n)
    \/ \E n \in FDNames : FDDeletedByOthers(n)

Spec == Init /\ [][Next]_vars

(***************************************************************************)
(* The name normalization on its own: two names and an owner name out of   *)
(* all strings up to the bounds, normalized once and once more.            *)
(***************************************************************************)
NoReconciler ==
    /\ subject = ZeroSubject
    /\ stored = FALSE
    /\ fds = [n \in FDNames |-> Absent]
    /\ pc = "off"
    /\ r = NewCSClusterReconciliationRunner
    /\ ev = NoEvent
    /\ h = [cur |-> NoHistory, prev |-> NoSnapshot]

OwnerNames == Strings(MaxOwnerLen) \ {<<>>}

InitNormalize ==
    /\ NoReconciler
    /\ flt = FltIdle
    /\ own = OwnIdle
    /\ \E owner \in OwnerNames : \E a, b \in Strings(MaxNameLen) :
           nrm = [step |-> "in", owner |-> owner, a |-> a, b |-> b,
                  outA |-> a, outB |-> b, againA |-> a]

NormalizeOnce ==
    /\ nrm.step = "in"
    /\ nrm' = [nrm EXCEPT !.step = "once",
                          !.outA = Normalize(nrm.a, nrm.owner),
                          !.outB = Normalize(nrm.b, nrm.owner)]
    /\ UNCHANGED <<subject, stored, fds, pc, r, ev, h, flt, own>>

NormalizeTwice ==
    /\ nrm.step = "once"
    /\ nrm' = [nrm EXCEPT !.step = "twice",
                          !.againA = Normalize(nrm.outA, nrm.owner)]
    /\ UNCHANGED <<subject, stored, fds, pc, r, ev, h, flt, own>>

NextNormalize == NormalizeOnce \/ NormalizeTwice

SpecNormalize == InitNormalize /\ [][NextNormalize]_vars

(***************************************************************************)
(* The Subject event filter on its own: an update notification with any    *)
(* old and new version out of Objects, or with the new version a patch of  *)
(* the reconciler makes of the old one.                                    *)
(***************************************************************************)
FilterSpecs == {l \in SpecLists : Len(l) <= MaxFilterFDs}

StatusMaps ==
    {<<>>, StatusMapLoop(<<>>, <<<<"p">>>>, CAPIClusterName)}

Objects ==
    [ ResourceVersion   : {"v1", "v2"},
      Generation        : {1},
      Labels            : {{}, {"env"}},
      DeletionTimestamp : BOOLEAN,
      Finalizers        : {<<>>, <<ClusterFinalizer>>},
      ManagedFields     : {<<"kubectl">>, <<"kubectl", "manager">>},
      Spec              : [FailureDomains : FilterSpecs],
      Status            : [Ready : BOOLEAN, FailureDomains : StatusMaps] ]

InitFilter ==
    /\ NoReconciler
    /\ nrm = NrmIdle
    /\ own = OwnIdle
    /\ \E old \in {o \in Objects : o.ResourceVersion = "v1"} :
           flt = [step |-> "in", old |-> old]

\* Any update notification.
FilterUpdate ==
    /\ flt.step = "in"
    /\ \E new \in Objects :
           flt' = [step |-> "out", by |-> "any", old |-> flt.old, new |-> new,
                   pass |-> UpdateFunc(flt.old, new)]
    /\ UNCHANGED <<subject, stored, fds, pc, r, ev, h, nrm, own>>

\* The update notification of a reconciler's patch: of its copy of the Subject
\* the reconciler changes the status and the finalizers only.
FilterReconcilerWrite ==
    /\ flt.step = "in"
    /\ \E mine \in Objects :
           LET new == Patched(flt.old, mine)
           IN  flt' = [step |-> "out", by |-> "reconciler", old |-> flt.old,
                       new |-> new, pass |-> UpdateFunc(flt.old, new)]
    /\ UNCHANGED <<subject, stored, fds, pc, r, ev, h, nrm, own>>

NextFilter == FilterUpdate \/ FilterReconcilerWrite

SpecFilter == InitFilter /\ [][NextFilter]_vars

(***************************************************************************)
(* The status projection on its own: a runner that has just loaded a       *)
(* Subject with any declared names, any prior status (stale and current    *)
(* keys, Ready or not), with or without the finalizer, under either owner  *)
(* name, runs SetFailureDomainsStatusMap.                                  *)
(***************************************************************************)
\* A key no declared name gives under any owner.
StaleKey == <<"s">>

\* What status.FailureDomains can hold before the projection.
PriorStatusMaps ==
    UNION {[keys -> [ControlPlane : BOOLEAN]] :
               keys \in SUBSET {<<"p", "-", "d">>, StaleKey}}

ProjectionOwners == {<<"d">>, <<"p">>}

ProjectionSubjects ==
    {[NewSubject(fdSpecs) EXCEPT !.Status = status, !.Finalizers = finalizers] :
        fdSpecs \in SpecLists,
        status \in [Ready : BOOLEAN, FailureDomains : PriorStatusMaps],
        finalizers \in {<<>>, <<ClusterFinalizer>>}}

InitProjection ==
    /\ \E subj \in ProjectionSubjects : \E owner \in ProjectionOwners :
           /\ subject = subj
           /\ r = [ForRequest(NewCSClusterReconciliationRunner, subj)
                       EXCEPT !.CAPICluster.Name = owner]
    /\ stored = TRUE
    /\ fds = [n \in FDNames |-> Absent]
    /\ pc = Stages[1]
    /\ ev = NoEvent
    /\ h = [cur |-> [NoHistory EXCEPT !.mode = "Normal"], prev |-> NoSnapshot]
    /\ nrm = NrmIdle
    /\ flt = FltIdle
    /\ own = OwnIdle

\* The first stage of Reconcile runs on the runner's copy of the Subject.
ProjectStatus ==
    /\ pc = "SetFailureDomainsStatusMap"
    /\ r' = SetFailureDomainsStatusMap(r)
    /\ pc' = NextStage(pc, r'.res)
    /\ UNCHANGED <<subject, stored, fds, ev, h, nrm, flt, own>>

SpecProjection == InitProjection /\ [][ProjectStatus]_vars

(***************************************************************************)
(* The watch on the owner Cluster on its own: a create, update or delete   *)
(* notification with any versions out of Clusters, answered by the watch's *)
(* predicate and mapped to the reconcile requests it enqueues.             *)
(***************************************************************************)
\* The Subject's identity, as the owner's infrastructure reference names it.
SubjectName == "demo"

NoRef == [Kind |-> "none"]

\* clusterv1.Cluster, by the fields the watch and its mapping read; the
\* readiness flag stands for all the others.
Clusters ==
    [ Spec   : [ Paused            : BOOLEAN,
                 InfrastructureRef :
                     {NoRef} \cup
                     [ Kind      : {"CloudStackCluster", "AWSCluster"},
                       Namespace : {Namespace},
                       Name      : {SubjectName} ] ],
      Status : [InfrastructureReady : BOOLEAN] ]

\* util.ClusterToInfrastructureMapFunc(CloudStackCluster): the request for the
\* infrastructure reference of the Cluster, when it is a CloudStackCluster.
ClusterToInfrastructureMapFunc(c) ==
    IF c.Spec.InfrastructureRef = NoRef THEN {}
    ELSE IF c.Spec.InfrastructureRef.Kind # "CloudStackCluster" THEN {}
    ELSE {[Namespace |-> c.Spec.InfrastructureRef.Namespace,
           Name      |-> c.Spec.InfrastructureRef.Name]}

InitOwner ==
    /\ NoReconciler
    /\ nrm = NrmIdle
    /\ flt = FltIdle
    /\ \E c \in Clusters : own = [step |-> "in", old |-> c]

\* An update of the owner: the predicate's UpdateFunc decides, and the handler
\* maps the old and the new version to requests.
OwnerUpdate ==
    /\ own.step = "in"
    /\ \E new \in Clusters :
           own' = [step |-> "out", kind |-> "Update", old |-> own.old, new |-> new,
                   enqueued |-> IF ClusterUpdateFunc(own.old, new)
                                THEN ClusterToInfrastructureMapFunc(own.old)
                                         \cup ClusterToInfrastructureMapFunc(new)
                                ELSE {}]
    /\ UNCHANGED <<subject, stored, fds, pc, r, ev, h, nrm, flt>>

\* The owner is created.
OwnerCreate ==
    /\ own.step = "in"
    /\ own' = [step |-> "out", kind |-> "Create", old |-> own.old, new |-> own.old,
               enqueued |-> IF ClusterCreateFunc
                            THEN ClusterToInfrastructureMapFunc(own.old)
                            ELSE {}]
    /\ UNCHANGED <<subject, stored, fds, pc, r, ev, h, nrm, flt>>

\* The owner is deleted.
OwnerDelete ==
    /\ own.step = "in"
    /\ own' = [step |-> "out", kind |-> "Delete", old |-> own.old, new |-> own.old,
               enqueued |-> IF ClusterDeleteFunc
                            THEN ClusterToInfrastructureMapFunc(own.old)
                            ELSE {}]
    /\ UNCHANGED <<subject, stored, fds, pc, r, ev, h, nrm, flt>>

NextOwner == OwnerUpdate \/ OwnerCreate \/ OwnerDelete

SpecOwner == InitOwner /\ [][NextOwner]_vars

(***************************************************************************)
(* The same under the scheduling the deletion protocol relies on: the      *)
(* scheduler re-invokes the reconciler after every requeue, error or       *)
(* cancellation and an invocation in flight moves on; a store call that    *)
(* is tried again and again succeeds in the end, and so does the patch;    *)
(* a failure domain whose deletion was asked for leaves the store.         *)
(***************************************************************************)
NormalStage == CreateFailureDomainsStage \/ GetFailureDomainsStage

\* The patch that takes the last finalizer off a Subject marked for deletion.
PatchReleases == PatchStage /\ ~stored'

Fairness ==
    /\ WF_vars(Begin)
    /\ WF_vars(NormalStage)
    /\ SF_vars(ReconcileDeleteFetched)
    /\ WF_vars(DeleteFailureDomainsStage)
    /\ SF_vars(DeleteFailureDomainIssued)
    /\ WF_vars(PatchStage)
    /\ SF_vars(PatchReleases)
    /\ \A n \in FDNames : WF_vars(FDVanishes(n))

LiveSpec == Init /\ [][Next]_vars /\ Fairness

(***************************************************************************)
(* Properties.                                                             *)
(***************************************************************************)
\* The names the Subject declares, normalized.
DeclaredSet ==
    {Normalize(subject.Spec.FailureDomains[i], CAPIClusterName) :
        i \in 1..Len(subject.Spec.FailureDomains)}

\* The names of the failure domains the store holds for the Subject.
RealizedSet == {n \in FDNames : fds[n].Present}

\* The names of the failure domains the invocation in flight fetched.
FetchedSet == {r.FailureDomains[i].Name : i \in 1..Len(r.FailureDomains)}

HasFinalizer(o) == ContainsFinalizer(o, ClusterFinalizer)

\* C1 (deletion safety): a step takes the finalizer off the stored Subject (or
\* has the store reclaim the Subject) only as the patch of a Deleting-mode
\* invocation whose own fetch of the dependents returned, and returned an empty
\* list; no invocation whose fetch returned a dependent takes it off.
C1_DeletionSafety ==
    [][ (stored /\ HasFinalizer(subject) /\ (~stored' \/ ~HasFinalizer(subject')))
          => /\ pc = "Patch"
             /\ h.cur.mode = "Deleting"
             /\ h.cur.fetched
             /\ r.FailureDomains = <<>> ]_vars

\* C1's case: a Subject that declares failure domains and carried the finalizer
\* has been released by the reconciler's patch.
C1_Witness ==
    /\ ~stored
    /\ ev.kind = "Delete"
    /\ ev.by = "reconciler"
    /\ subject.Status.Ready
    /\ Len(subject.Spec.FailureDomains) > 0

\* C2 (no orphans), as claimed: once the store has removed the Subject, no
\* failure domain of the Subject is left in the store.
C2_NoOrphans == ~stored => RealizedSet = {}

\* C3 (readiness invariant), as claimed: whenever the stored Subject is Ready,
\* the failure domains in the store are exactly the declared ones and every one
\* of them reports ready.
C3_ReadyInvariant ==
    (stored /\ subject.Status.Ready)
        => /\ RealizedSet = DeclaredSet
           /\ \A n \in RealizedSet : fds[n].Ready

\* C3, amended: the stored status.Ready turns true only by the patch of a
\* Normal-mode invocation whose own fetch returned exactly the declared failure
\* domains, as many as declared, every one reporting ready.
C3_ReadySetOnlyWhenVerified ==
    [][ (~subject.Status.Ready /\ subject'.Status.Ready)
          => /\ pc = "Patch"
             /\ h.cur.mode = "Normal"
             /\ h.cur.fetched
             /\ Len(r.FailureDomains) = Len(subject.Spec.FailureDomains)
             /\ FetchedSet = DeclaredSet
             /\ \A i \in 1..Len(r.FailureDomains) : r.FailureDomains[i].Ready ]_vars

\* C3's case: the patch of an invocation has just turned the stored status.Ready
\* of a Subject that declares failure domains from false to true.
C3_Witness ==
    /\ stored
    /\ DeclaredSet # {}
    /\ ev.kind = "Update"
    /\ ev.by = "reconciler"
    /\ ~ev.old.Status.Ready
    /\ ev.new.Status.Ready
    /\ subject = ev.new

\* A complete Normal-mode invocation that no store failure and no foreign store
\* change touched hands its patch to the store in this step.
CleanNormalRunEnds == pc = "Patch" /\ h'.prev.valid

\* The declared names stay pairwise distinct under normalization.
DistinctAfterNormalization ==
    Cardinality(DeclaredSet) = Len(subject.Spec.FailureDomains)

\* C4 (convergence), as claimed: for every Subject, a Normal-mode invocation
\* that begins when every failure domain created for the Subject is ready (and
\* runs undisturbed) leaves the Subject Ready.
C4_Convergence ==
    [][ (CleanNormalRunEnds /\ h.cur.startOK) => subject'.Status.Ready ]_vars

\* C4, amended: for every Subject whose declared names are pairwise distinct
\* after normalization (any number N >= 0 of them), a Normal-mode invocation that
\* begins when every declared failure domain exists and is ready, and runs
\* undisturbed, leaves the Subject Ready: one reconciliation is enough.
C4_ConvergenceDistinctNames ==
    [][ (CleanNormalRunEnds /\ h.cur.startOK /\ DistinctAfterNormalization)
          => subject'.Status.Ready ]_vars

\* C4's case: a Subject declaring as many failure domains as the bound allows,
\* all distinct after normalization, was not Ready, found them all ready, and
\* has been marked Ready by one clean run.
C4_Witness ==
    /\ stored
    /\ h.prev.valid
    /\ Len(subject.Spec.FailureDomains) > 1
    /\ DistinctAfterNormalization
    /\ ev.kind = "Update"
    /\ ~ev.old.Status.Ready
    /\ subject.Status.Ready
    /\ pc = "idle"

\* C5 (idempotence): when a clean Normal run ends and the one before it was a
\* clean Normal run too, with no foreign store change in between, the failure
\* domains in the store and the Subject's status and finalizers are after the
\* second run what they were after the first, and the second run created no
\* failure domain.
C5_Idempotence ==
    [][ (CleanNormalRunEnds /\ h.prev.valid)
          => /\ h'.prev = h.prev
             /\ h.cur.creates = <<>> ]_vars

\* C5's case: the second of two clean Normal runs in succession is about to
\* patch, for a Subject that is Ready, carries the finalizer and has failure
\* domains in the store.
C5_Witness ==
    /\ pc = "Patch"
    /\ h.prev.valid
    /\ h.cur.mode = "Normal"
    /\ ~h.cur.fault
    /\ ~h.cur.ext
    /\ h.cur.setReady
    /\ RealizedSet # {}
    /\ HasFinalizer(subject)

\* VerifyFailureDomainCRDs has run in the invocation in flight.
Verified == h.cur.verify # NoResult

NotReadyFetched == \E i \in 1..Len(r.FailureDomains) : ~r.FailureDomains[i].Ready

\* C7 (count mismatch): whenever VerifyFailureDomainCRDs has run with E declared
\* specs and A fetched failure domains, E # A, it returned a requeue whose reason
\* is "Expected E FailureDomains, but found A", whatever the readiness of the
\* fetched ones.
C7_CountMismatch ==
    LET E == Len(r.ReconciliationSubject.Spec.FailureDomains)
        A == Len(r.FailureDomains)
    IN  (Verified /\ E # A)
            => /\ h.cur.verify.requeue
               /\ h.cur.verify.msg = <<"Expected ", E, " FailureDomains, but found ", A>>

\* C7's case: more specs are declared than failure domains were fetched, one of
\* the fetched ones is not ready, and the verify step has answered.
C7_Witness ==
    /\ Verified
    /\ Len(r.ReconciliationSubject.Spec.FailureDomains) > Len(r.FailureDomains)
    /\ Len(r.FailureDomains) > 0
    /\ NotReadyFetched

\* C8 (requeue, never an error): once VerifyFailureDomainCRDs has run, it
\* returned requeue, with a nil error, exactly if the counts differ or a fetched
\* failure domain is not ready, and continue otherwise; after a requeue
\* SetReady does not run, the runner's copy of the Subject keeps its Ready flag
\* and finalizers, and the patch that ends the invocation leaves the stored
\* Ready flag and finalizers as they were.
C8_RequeueNotError ==
    /\ [](Verified =>
            LET E == Len(r.ReconciliationSubject.Spec.FailureDomains)
                A == Len(r.FailureDomains)
            IN  /\ h.cur.verify.requeue <=> (E # A \/ NotReadyFetched)
                /\ h.cur.verify.err = "nil"
                /\ ~h.cur.verify.requeue => h.cur.verify = Continue
                /\ h.cur.verify.requeue
                     => /\ ~h.cur.setReady
                        /\ pc = "Patch"
                        /\ r.ReconciliationSubject.Status.Ready = r.Patcher.Status.Ready
                        /\ r.ReconciliationSubject.Finalizers = r.Patcher.Finalizers)
    /\ [][ (Verified /\ h.cur.verify.requeue)
             => /\ subject'.Status.Ready = subject.Status.Ready
                /\ subject'.Finalizers = subject.Finalizers ]_vars

\* C8's case: the counts agree, a fetched failure domain is not ready, and the
\* verify step has returned requeue to a Subject that is not Ready yet.
C8_Witness ==
    /\ Verified
    /\ h.cur.verify.requeue
    /\ Len(r.ReconciliationSubject.Spec.FailureDomains) = Len(r.FailureDomains)
    /\ NotReadyFetched
    /\ ~subject.Status.Ready

\* C6 (deletion completes): under the fair scheduling, a stored Subject whose
\* deletion marker is set is eventually released: an invocation finds no
\* failure domain, takes the finalizer off, and the store removes the Subject.
C6_DeletionCompletes ==
    (stored /\ subject.DeletionTimestamp)
        ~> (~stored /\ ev.kind = "Delete" /\ ev.by = "reconciler")

\* C6's case: the deletion marker was set on a Subject whose failure domains
\* were all in the store, and the Subject is gone with none of them left.
C6_Witness ==
    /\ ~stored
    /\ subject.DeletionTimestamp
    /\ ev.kind = "Delete"
    /\ ev.by = "reconciler"
    /\ Len(subject.Spec.FailureDomains) > 1
    /\ DistinctAfterNormalization
    /\ RealizedSet = {}

\* Whether name ends with "-<owner>", by its parts.
EndsWithOwner(name, owner) ==
    \E k \in 0..Len(name) : name = SubSeq(name, 1, k) \o <<"-">> \o owner

\* Normalization as specified, of one name: the suffix is appended exactly when
\* the name does not end with it, and normalizing again changes nothing.
NormalizeAsSpecified ==
    /\ EndsWithOwner(nrm.a, nrm.owner) => nrm.outA = nrm.a
    /\ ~EndsWithOwner(nrm.a, nrm.owner) => nrm.outA = nrm.a \o <<"-">> \o nrm.owner
    /\ (nrm.a = <<"p">> /\ nrm.owner = <<"d">>) => nrm.outA = <<"p", "-", "d">>
    /\ (nrm.a = <<"p", "-", "d">> /\ nrm.owner = <<"d">>) => nrm.outA = <<"p", "-", "d">>
    /\ nrm.step = "twice" => nrm.againA = nrm.outA

\* C9 (name normalization), as claimed: the suffix is appended exactly when
\* missing, normalization is idempotent, and two distinct declared names have
\* distinct normalized names.
C9_Normalization ==
    nrm.step \in {"once", "twice"}
        => /\ NormalizeAsSpecified
           /\ nrm.a # nrm.b => nrm.outA # nrm.outB

\* One of the two names lacks the suffix and is the other one once it gets it.
CollideOnceNormalized ==
    LET suffix == <<"-">> \o nrm.owner
    IN  \/ ~EndsWithOwner(nrm.a, nrm.owner) /\ nrm.a \o suffix = nrm.b
        \/ ~EndsWithOwner(nrm.b, nrm.owner) /\ nrm.b \o suffix = nrm.a

\* C9, amended: the suffix is appended exactly when missing, normalization is
\* idempotent, and two distinct declared names have distinct normalized names
\* unless one of them lacks the suffix and equals the other once the suffix is
\* appended to it (as "pool1" and "pool1-demo" under owner "demo").
C9_NormalizationUpToSuffix ==
    nrm.step \in {"once", "twice"}
        => /\ NormalizeAsSpecified
           /\ (nrm.a # nrm.b /\ ~CollideOnceNormalized) => nrm.outA # nrm.outB
           /\ CollideOnceNormalized => nrm.outA = nrm.outB

\* C9's case: under owner "d", "p" has become "p-d", "d-d" has stayed "d-d", and
\* normalizing "p-d" again has left it.
C9_Witness ==
    /\ nrm.step = "twice"
    /\ nrm.owner = <<"d">>
    /\ nrm.a = <<"p">>
    /\ nrm.outA = <<"p", "-", "d">>
    /\ nrm.againA = <<"p", "-", "d">>
    /\ nrm.b = <<"d", "-", "d">>
    /\ nrm.outB = <<"d", "-", "d">>

\* The two versions agree on all but the resource version, the finalizers, the
\* managed fields and the status.
DifferOnlyInMasked(old, new) ==
    /\ old.Generation = new.Generation
    /\ old.Labels = new.Labels
    /\ old.DeletionTimestamp = new.DeletionTimestamp
    /\ old.Spec = new.Spec

\* C10 (filter suppression): an update notification whose versions differ only
\* in resource version, finalizers, managed fields and status does not pass the
\* filter; one whose spec.FailureDomains differ passes it; the update
\* notification of a reconciler's own patch (status, finalizers) does not pass.
C10_FilterSuppression ==
    flt.step = "out"
        => /\ DifferOnlyInMasked(flt.old, flt.new) => ~flt.pass
           /\ flt.old.Spec.FailureDomains # flt.new.Spec.FailureDomains => flt.pass
           /\ flt.by = "reconciler" => ~flt.pass

\* C10's case: the reconciler's patch has set Ready, filled the status map and
\* added the finalizer, the store has stamped a new version, and the filter has
\* answered no.
C10_Witness ==
    /\ flt.step = "out"
    /\ flt.by = "reconciler"
    /\ ~flt.old.Status.Ready
    /\ flt.new.Status.Ready
    /\ flt.old.Status.FailureDomains # flt.new.Status.FailureDomains
    /\ flt.old.Finalizers = <<>>
    /\ flt.new.Finalizers = <<ClusterFinalizer>>
    /\ flt.old.ResourceVersion # flt.new.ResourceVersion
    /\ flt.old.ManagedFields # flt.new.ManagedFields
    /\ ~flt.pass

\* C11 (only spec changes trigger work), as claimed: an update notification
\* passes the Subject event filter only if the spec of the old and of the new
\* version differ.
C11_OnlySpecChanges ==
    (flt.step = "out" /\ flt.pass) => flt.old.Spec # flt.new.Spec

\* C11, amended: an update notification passes the filter exactly if the two
\* versions differ in a field other than resource version, finalizers, managed
\* fields and status: in the spec, or in metadata such as the labels or the
\* deletion timestamp. With identical specs, labels, generation and deletion
\* timestamp it never passes.
C11_PassIffUnmaskedFieldsDiffer ==
    flt.step = "out"
        => (flt.pass <=> \/ flt.old.Spec # flt.new.Spec
                         \/ flt.old.Labels # flt.new.Labels
                         \/ flt.old.Generation # flt.new.Generation
                         \/ flt.old.DeletionTimestamp # flt.new.DeletionTimestamp)

\* C11's case: the two versions have the same spec and differ in their labels
\* only, and the filter has let the notification pass.
C11_Witness ==
    /\ flt.step = "out"
    /\ flt.old.Spec = flt.new.Spec
    /\ flt.old.Spec.FailureDomains # <<>>
    /\ flt.old.Labels # flt.new.Labels
    /\ flt.old.DeletionTimestamp = flt.new.DeletionTimestamp
    /\ flt.old.Status = flt.new.Status
    /\ flt.pass

\* The Subjects an owner version references.
Referenced(c) ==
    IF c.Spec.InfrastructureRef # NoRef
       /\ c.Spec.InfrastructureRef.Kind = "CloudStackCluster"
    THEN {[Namespace |-> Namespace, Name |-> SubjectName]}
    ELSE {}

FetchedNames == [i \in 1..Len(r.FailureDomains) |-> r.FailureDomains[i].Name]

\* C13 (multi-pass deletion): a Deleting-mode invocation whose fetch returned
\* one or more failure domains and whose deletes all succeeded has asked the
\* store to delete every fetched one, in order, returns requeue, and has left
\* the finalizer on its copy of the Subject; its patch leaves the Subject and
\* its finalizer in the store, also when no failure domain is left by then.
C13_MultiPassDeletion ==
    /\ []((/\ pc = "Patch"
            /\ h.cur.mode = "Deleting"
            /\ h.cur.fetched
            /\ Len(r.FailureDomains) > 0
            /\ r.res.err = "nil")
              => /\ r.res.requeue
                 /\ h.cur.deletes = FetchedNames
                 /\ HasFinalizer(r.ReconciliationSubject)
                 /\ r.ReconciliationSubject.Finalizers = r.Patcher.Finalizers)
    /\ [][ (/\ pc = "Patch"
             /\ h.cur.mode = "Deleting"
             /\ Len(r.FailureDomains) > 0)
               => /\ stored' = stored
                  /\ subject'.Finalizers = subject.Finalizers ]_vars

\* C13's case: two failure domains were fetched, both deletes took effect at
\* once, and the invocation is about to end with a requeue, the finalizer
\* still on the Subject.
C13_Witness ==
    /\ pc = "Patch"
    /\ h.cur.mode = "Deleting"
    /\ Len(r.FailureDomains) > 1
    /\ Len(h.cur.deletes) = Len(r.FailureDomains)
    /\ RealizedSet = {}
    /\ r.res.requeue
    /\ stored
    /\ HasFinalizer(subject)

\* C14 (a delete failure aborts the step): a Deleting-mode invocation one of
\* whose store calls failed returns that error, neither requeue nor success; it
\* has asked for no delete past the failing item of the fetched list (for none
\* at all when the fetch failed) and has left the finalizer on its copy of the
\* Subject; its patch leaves the Subject and its finalizers in the store.
C14_DeleteFailureAborts ==
    /\ []((/\ pc = "Patch"
            /\ h.cur.mode = "Deleting"
            /\ (h.cur.fault \/ r.res.err # "nil"))
              => /\ r.res.err # "nil"
                 /\ ~r.res.requeue
                 /\ r.ReconciliationSubject.Finalizers = r.Patcher.Finalizers
                 /\ ~h.cur.fetched => h.cur.deletes = <<>>
                 /\ h.cur.fetched
                      => /\ r.idx <= Len(r.FailureDomains)
                         /\ Len(h.cur.deletes) <= r.idx
                         /\ \A i \in 1..Len(h.cur.deletes) :
                                h.cur.deletes[i] = FetchedNames[i])
    /\ [][ (/\ pc = "Patch"
             /\ h.cur.mode = "Deleting"
             /\ r.res.err # "nil")
               => /\ stored' = stored
                  /\ subject'.Finalizers = subject.Finalizers ]_vars

\* C14's case: two failure domains were fetched, the Delete of the first one
\* failed, and the invocation is about to end with the error, the second one
\* untouched and the finalizer on the Subject.
C14_Witness ==
    /\ pc = "Patch"
    /\ h.cur.mode = "Deleting"
    /\ h.cur.fetched
    /\ h.cur.fault
    /\ Len(r.FailureDomains) > 1
    /\ r.idx = 1
    /\ h.cur.deletes = <<>>
    /\ r.res.err = "StoreUnavailable"
    /\ \A i \in 1..Len(r.FailureDomains) :
           /\ fds[r.FailureDomains[i].Name].Present
           /\ ~fds[r.FailureDomains[i].Name].Terminating
    /\ HasFinalizer(subject)

\* C15 (a vanished failure domain is benign), as claimed: a Deleting-mode
\* invocation none of whose store calls failed for any other reason than the
\* failure domain being gone does not end with an error.
C15_VanishedDependentBenign ==
    (/\ pc = "Patch"
     /\ h.cur.mode = "Deleting"
     /\ h.cur.fetched
     /\ ~h.cur.fault)
        => r.res.err = "nil"

\* C16 (the status projection is a pure replace): after
\* SetFailureDomainsStatusMap, whatever status.FailureDomains held before, its
\* keys are exactly the declared names with "-<owner>" appended where missing,
\* each mapped to ControlPlane = true; the stage continues and has changed
\* neither the spec nor status.Ready nor the finalizers of the Subject.
C16_StatusProjection ==
    pc = "CreateFailureDomains"
        => LET after == r.ReconciliationSubject
               prior == r.Patcher
               owner == r.CAPICluster.Name
               names == {prior.Spec.FailureDomains[i] :
                            i \in 1..Len(prior.Spec.FailureDomains)}
               keys  == {n \in names : EndsWithOwner(n, owner)} \cup
                        {n \o <<"-">> \o owner :
                            n \in {m \in names : ~EndsWithOwner(m, owner)}}
           IN  /\ DOMAIN after.Status.FailureDomains = keys
               /\ \A k \in keys :
                      after.Status.FailureDomains[k] = [ControlPlane |-> TRUE]
               /\ after.Spec = prior.Spec
               /\ after.Status.Ready = prior.Status.Ready
               /\ after.Finalizers = prior.Finalizers
               /\ [after EXCEPT !.Status.FailureDomains = <<>>]
                      = [prior EXCEPT !.Status.FailureDomains = <<>>]
               /\ r.res = Continue

\* C16's case: the prior status held a stale key and a current key marked not
\* control-plane; the projection has dropped the one and rewritten the other
\* for a Ready Subject declaring several names.
C16_Witness ==
    /\ pc = "CreateFailureDomains"
    /\ StaleKey \in DOMAIN r.Patcher.Status.FailureDomains
    /\ <<"p", "-", "d">> \in DOMAIN r.Patcher.Status.FailureDomains
    /\ ~r.Patcher.Status.FailureDomains[<<"p", "-", "d">>].ControlPlane
    /\ StaleKey \notin DOMAIN r.ReconciliationSubject.Status.FailureDomains
    /\ <<"p", "-", "d">> \in DOMAIN r.ReconciliationSubject.Status.FailureDomains
    /\ r.ReconciliationSubject.Status.FailureDomains[<<"p", "-", "d">>].ControlPlane
    /\ Len(r.Patcher.Spec.FailureDomains) > 1
    /\ r.Patcher.Status.Ready
    /\ r.CAPICluster.Name = <<"d">>

\* C17 (mutually exclusive modes): the mode of an invocation is Deleting exactly
\* if the Subject it loaded carries the deletion marker, and it runs the stages
\* of that mode only. A Deleting-mode invocation creates no failure domain,
\* runs neither the verification nor SetReady, and leaves status and Ready of
\* its copy of the Subject alone, adding no finalizer; a Normal-mode invocation
\* asks for no delete and takes no finalizer off. In the store, a failure
\* domain appears, Ready turns true and the finalizer is added only in Normal
\* mode; the finalizer is taken off only in Deleting mode.
C17_ExclusiveModes ==
    /\ [](pc # "idle"
            => /\ h.cur.mode = IF r.Patcher.DeletionTimestamp
                               THEN "Deleting" ELSE "Normal"
               /\ h.cur.mode = "Deleting"
                    => /\ pc \in {"ReconcileDelete", "DeleteFailureDomains", "Patch"}
                       /\ h.cur.creates = <<>>
                       /\ ~h.cur.setReady
                       /\ h.cur.verify = NoResult
                       /\ r.ReconciliationSubject.Status = r.Patcher.Status
                       /\ Len(r.ReconciliationSubject.Finalizers)
                              <= Len(r.Patcher.Finalizers)
               /\ h.cur.mode = "Normal"
                    => /\ pc \in {"CreateFailureDomains", "GetFailureDomains", "Patch"}
                       /\ h.cur.deletes = <<>>
                       /\ HasFinalizer(r.Patcher)
                              => HasFinalizer(r.ReconciliationSubject))
    /\ [][ (\/ \E n \in FDNames : ~fds[n].Present /\ fds'[n].Present
            \/ ~subject.Status.Ready /\ subject'.Status.Ready
            \/ ~HasFinalizer(subject) /\ HasFinalizer(subject'))
              => h.cur.mode = "Normal" ]_vars
    /\ [][ (stored /\ HasFinalizer(subject)
              /\ (~stored' \/ ~HasFinalizer(subject')))
              => h.cur.mode = "Deleting" ]_vars

\* C17's case: a Deleting-mode invocation on a Ready Subject that carries the
\* finalizer has fetched several failure domains and asked for the delete of
\* the first one.
C17_Witness ==
    /\ pc = "DeleteFailureDomains"
    /\ h.cur.mode = "Deleting"
    /\ Len(r.FailureDomains) > 1
    /\ Len(h.cur.deletes) = 1
    /\ r.ReconciliationSubject.Status.Ready
    /\ HasFinalizer(r.ReconciliationSubject)

\* C18 (cancellation and crash tolerance): the step that cuts an invocation off
\* writes nothing of the Subject and undoes none of the creates and deletes
\* issued. After an invocation was cut off with some of its creates or deletes
\* issued, a complete Normal-mode invocation ends with every declared failure
\* domain in the store and the status map rebuilt from the spec, and, under
\* the fair scheduling, a Subject marked for deletion is released in the end
\* with no failure domain left. No step takes the finalizer off, or releases
\* the Subject, while a failure domain is in the store.
C18_CancellationTolerance ==
    /\ [][ (pc # "idle" /\ pc' = "idle" /\ h'.prev.cut # "none")
              => UNCHANGED <<subject, stored, fds>> ]_vars
    /\ [][ (CleanNormalRunEnds /\ h.prev.cut # "none")
              => /\ DeclaredSet \subseteq RealizedSet
                 /\ fds' = fds
                 /\ DOMAIN subject'.Status.FailureDomains = DeclaredSet ]_vars
    /\ (stored /\ subject.DeletionTimestamp /\ h.prev.cut = "Deleting")
           ~> (~stored /\ RealizedSet = {})
    /\ [][ (stored /\ HasFinalizer(subject)
              /\ (~stored' \/ ~HasFinalizer(subject')))
              => RealizedSet = {} ]_vars

\* C18's case: a Deleting-mode invocation was cut off after the first of its two
\* deletes; the invocation after it has fetched the failure domain that was
\* left, deleted it and is about to end, no failure domain left in the store.
C18_Witness ==
    /\ pc = "Patch"
    /\ h.cur.mode = "Deleting"
    /\ h.prev.cut = "Deleting"
    /\ Len(subject.Spec.FailureDomains) = 2
    /\ DistinctAfterNormalization
    /\ Len(r.FailureDomains) = 1
    /\ h.cur.deletes = FetchedNames
    /\ r.res.requeue
    /\ RealizedSet = {}
    /\ stored

\* C19 (readiness is never withdrawn): no stage turns status.Ready of the
\* runner's copy of the Subject from true to false, and no step turns the
\* stored status.Ready from true to false: not the patch of an invocation that
\* ends in requeue or error, and not the deletion.
C19_ReadyNeverWithdrawn ==
    /\ [](r.Patcher.Status.Ready => r.ReconciliationSubject.Status.Ready)
    /\ [][ subject.Status.Ready => subject'.Status.Ready ]_vars

\* C19's case: a Normal-mode invocation on a Ready Subject has fetched a
\* failure domain that is not ready any more and ends in requeue, with Ready
\* still true on its copy of the Subject.
C19_Witness ==
    /\ pc = "Patch"
    /\ h.cur.mode = "Normal"
    /\ h.cur.verify.requeue
    /\ NotReadyFetched
    /\ stored
    /\ subject.Status.Ready
    /\ r.ReconciliationSubject.Status.Ready

\* C20 (deletion requests reach the reconciler): the update notification of a
\* deletion request, whose versions differ in the deletion timestamp (and the
\* resource version the store stamps) only, passes the Subject event filter;
\* every create and every delete notification on the Subject passes it; and,
\* under the fair scheduling, a stored Subject whose deletion marker is set
\* gets a Deleting-mode invocation.
C20_DeletionReachesReconciler ==
    /\ []((ev.kind = "Update" /\ ev.by = "user")
            => /\ ~ev.old.DeletionTimestamp
               /\ ev.new.DeletionTimestamp
               /\ [ev.new EXCEPT !.DeletionTimestamp = FALSE,
                                 !.ResourceVersion = ev.old.ResourceVersion] = ev.old
               /\ ev.pass)
    /\ [](ev.kind \in {"Create", "Delete"} => ev.pass)
    /\ (stored /\ subject.DeletionTimestamp)
           ~> (pc # "idle" /\ h.cur.mode = "Deleting")

\* C20's case: deletion of a Ready Subject was requested, its update
\* notification has passed the filter, and a Deleting-mode invocation has begun.
C20_Witness ==
    /\ ev.kind = "Update"
    /\ ev.by = "user"
    /\ ev.pass
    /\ ev.new = subject
    /\ subject.Status.Ready
    /\ pc = "ReconcileDelete"
    /\ h.cur.mode = "Deleting"

====
